---- MODULE Spec2Model ----
(***************************************************************************)
(* Model of scripts/import_youmind.mjs (the Youmind -> Astro importer) and *)
(* of import-from-clipboard.command (the launcher that runs it).           *)
(*                                                                         *)
(* Spec   : main() and processFile() as a state machine.  A document is    *)
(*          the sequence of its image occurrences (the text between them   *)
(*          is never touched by the image pass); downloads are separate    *)
(*          in-flight operations that settle while main is suspended at an *)
(*          await.                                                         *)
(* SpecFM : the frontmatter step of processFile and createFrontmatter on   *)
(*          documents that are character sequences.                        *)
(***************************************************************************)
EXTENDS Integers, Sequences, FiniteSets, TLC

\* ---------------------------------------------------------------- bounds
MaxImgs == 3        \* image occurrences per document
MaxFiles == 2       \* markdown files in a --source directory

VARIABLES
    mode,           \* "paste" | "file" | "source" | "none"   (process.argv)
    pc,             \* position of main()
    nFiles,         \* mdFiles.length
    cur,            \* index of the file processFile is / was last called for
    attempts,       \* attempts[f]: number of processFile calls for file f
    tempExists,     \* temp_clipboard_import.md exists on disk
    completed,      \* the "Import completed!" line was printed
    exitCode,       \* exit status of the node process (-1: still running)
    launcher,       \* what import-from-clipboard.command reported
    ppc,            \* position of processFile()
    orig,           \* the document as read by fs.readFile
    content,        \* the local `content` of processFile
    pos,            \* index of the occurrence the scan loop is at
    replacementMap, \* the Map of processFile, as its entries in insertion order
    downloads,      \* downloadTasks of the running call: [pos, snip, st]
    inflight,       \* inflight[f]: downloads of file f still in flight after its
                    \* processFile call returned
    copied,         \* names copied into postDir by fs.copyFile for this document
    imgError,       \* a per-image error happened in this document
    ioError,        \* a per-file error (read, mkdir, write) happened in this document
    saved,          \* index.md was written for this document
    text,           \* SpecFM: content of the document, a character sequence
    paras,          \* SpecFM: the paragraphs `text` was built from
    aiKey,          \* SpecFM: AI_API_KEY is set
    aiReply,        \* SpecFM: what generateAiSummary resolved to at the last call
    description,    \* SpecFM: the description written into the last frontmatter
    synthCalls,     \* SpecFM: number of createFrontmatter calls
    runs            \* SpecFM: number of times the pipeline ran on the document

mainVars == <<mode, pc, nFiles, cur, attempts, tempExists, completed, exitCode,
              launcher, ppc, orig, content, pos, replacementMap, downloads,
              inflight, copied, imgError, ioError, saved>>
fmVars == <<text, paras, aiKey, aiReply, description, synthCalls, runs>>
vars == <<mainVars, fmVars>>

\* ------------------------------------------------------ image occurrences
\* The snippets (fullMatch texts) a document may contain.
Snippets == {"r1", "r2", "bad", "loc", "ldol", "lbad"}

\* imgPath.startsWith('http')
IsRemote(s) == s \in {"r1", "r2", "bad"}

\* new URL(imgPath) returns (it throws TypeError on e.g. "http" or "http://")
UrlParses(s) == s # "bad"

\* decodeURIComponent(imgPath) returns (it throws URIError on e.g. "a%zz.png")
DecodeOk(s) == s # "lbad"

\* File names.  The random suffix of a downloaded image is taken to be unique
\* (the index of its occurrence); a local image keeps its base name, which for
\* "ldol" holds the two characters "$$" (as in cost$$.png).
NoName == [kind |-> "none", id |-> 0]

\* `img-${imgHash}${ext}`
ImgName(i) == [kind |-> "img", id |-> i]

\* path.basename(sourceImgPath)
BaseName(s) == [kind |-> IF s = "ldol" THEN "dollars" ELSE "plain", id |-> 0]

\* The replacement string of String.prototype.replace is a pattern even when
\* the search value is a string: "$$" in it stands for one "$".
GetSubstitution(n) == IF n.kind = "dollars" THEN [kind |-> "dollar", id |-> 0] ELSE n

\* An occurrence as it stands in `content`: the original snippet, name = NoName,
\* or `![alt](./<name> "title")` after the rewrite.
Tok(s) == [snip |-> s, name |-> NoName]

SeqsUpTo(S, n) == UNION {[1..k -> S] : k \in 0..n}

Docs == {[i \in DOMAIN d |-> Tok(d[i])] : d \in SeqsUpTo(Snippets, MaxImgs)}

\* ------------------------------------------------------------ Map helpers
MapHas(m, k) == \E i \in DOMAIN m : m[i].key = k

\* Map.prototype.set: an existing key keeps its place, a new one goes last.
MapSet(m, k, n) ==
    IF MapHas(m, k)
    THEN [i \in DOMAIN m |-> IF m[i].key = k THEN [key |-> k, name |-> n] ELSE m[i]]
    ELSE Append(m, [key |-> k, name |-> n])

\* Map.prototype.delete
MapDelete(m, k) == SelectSeq(m, LAMBDA e : e.key # k)

\* String.prototype.replace(fullMatch, newMarkdown): the FIRST occurrence only.
FirstIndex(c, k) ==
    IF \E i \in DOMAIN c : c[i] = Tok(k)
    THEN CHOOSE i \in DOMAIN c : c[i] = Tok(k) /\ \A j \in 1..(i-1) : c[j] # Tok(k)
    ELSE 0

ReplaceFirst(c, k, n) ==
    LET i == FirstIndex(c, k)
    IN IF i = 0 THEN c ELSE [c EXCEPT ![i] = [snip |-> k, name |-> GetSubstitution(n)]]

RECURSIVE ApplyReplacements(_, _)
\* for (const [fullMatch, info] of replacementMap) content = content.replace(...)
ApplyReplacements(c, m) ==
    IF m = <<>> THEN c
    ELSE ApplyReplacements(ReplaceFirst(c, Head(m).key, Head(m).name), Tail(m))

\* ------------------------------------------------------------- downloads
Task(i, s) == [pos |-> i, snip |-> s, st |-> "pending"]

Pending == {t \in downloads : t.st = "pending"}

AnySettled == \E t \in downloads : t.st # "pending"

\* await Promise.all(downloadTasks): every task has settled (no task rejects,
\* each carries its own .catch).
AllSettled == \A t \in downloads : t.st # "pending"

\* processFile returns: the downloads it dispatched and did not wait for stay
\* in flight
Leak(fl, f, n) == [fl EXCEPT ![f] = @ + n]

NoInflight == \A f \in DOMAIN inflight : inflight[f] = 0

\* sourceDir argument of processFile: null for --paste
HasSourceDir == mode \in {"file", "source"}

\* main is suspended at an await, so I/O callbacks may run
Suspended == ppc \in {"read", "copying", "waitAll", "writing"} \/ pc = "done"

\* ------------------------------------------------------------------ main
MainInit ==
    /\ mode \in {"paste", "file", "source", "none"}
    /\ pc = "start"
    /\ nFiles = 0
    /\ cur = 0
    /\ attempts = [f \in 1..MaxFiles |-> 0]
    /\ tempExists = FALSE
    /\ completed = FALSE
    /\ exitCode = -1
    /\ launcher = "none"
    /\ ppc = "idle"
    /\ orig = <<>>
    /\ content = <<>>
    /\ pos = 0
    /\ replacementMap = <<>>
    /\ downloads = {}
    /\ inflight = [f \in 1..MaxFiles |-> 0]
    /\ copied = {}
    /\ imgError = FALSE
    /\ ioError = FALSE
    /\ saved = FALSE

procVars == <<ppc, orig, content, pos, replacementMap, downloads, inflight,
              copied, imgError, ioError, saved>>

\* no mode flag given: usage, process.exit(1)
Usage ==
    /\ pc = "start" /\ mode = "none"
    /\ pc' = "exited" /\ exitCode' = 1
    /\ UNCHANGED <<mode, nFiles, cur, attempts, tempExists, completed, launcher>>
    /\ UNCHANGED procVars /\ UNCHANGED fmVars

\* --paste, clipboard empty (or pbpaste failed): process.exit(1)
PasteEmpty ==
    /\ pc = "start" /\ mode = "paste"
    /\ pc' = "exited" /\ exitCode' = 1
    /\ UNCHANGED <<mode, nFiles, cur, attempts, tempExists, completed, launcher>>
    /\ UNCHANGED procVars /\ UNCHANGED fmVars

\* --paste: the clipboard text is written to the temporary file
PasteWrite ==
    /\ pc = "start" /\ mode = "paste"
    /\ tempExists' = TRUE
    /\ nFiles' = 1 /\ cur' = 1
    /\ pc' = "call"
    /\ UNCHANGED <<mode, attempts, completed, exitCode, launcher>>
    /\ UNCHANGED procVars /\ UNCHANGED fmVars

\* --file=path
SingleFile ==
    /\ pc = "start" /\ mode = "file"
    /\ nFiles' = 1 /\ cur' = 1
    /\ pc' = "call"
    /\ UNCHANGED <<mode, attempts, tempExists, completed, exitCode, launcher>>
    /\ UNCHANGED procVars /\ UNCHANGED fmVars

\* --source=dir, fs.readdir throws: process.exit(1)
ReaddirFail ==
    /\ pc = "start" /\ mode = "source"
    /\ pc' = "exited" /\ exitCode' = 1
    /\ UNCHANGED <<mode, nFiles, cur, attempts, tempExists, completed, launcher>>
    /\ UNCHANGED procVars /\ UNCHANGED fmVars

\* --source=dir: mdFiles = the names ending in .md
Readdir ==
    /\ pc = "start" /\ mode = "source"
    /\ \E n \in 0..MaxFiles :
        /\ nFiles' = n
        /\ cur' = IF n = 0 THEN 0 ELSE 1
        /\ pc' = IF n = 0 THEN "finish" ELSE "call"
    /\ UNCHANGED <<mode, attempts, tempExists, completed, exitCode, launcher>>
    /\ UNCHANGED procVars /\ UNCHANGED fmVars

\* processFile(filePath, sourceDir) is called and runs up to its first await
ProcBegin ==
    /\ pc = "call" /\ ppc = "idle"
    /\ attempts' = [attempts EXCEPT ![cur] = @ + 1]
    /\ pc' = "await"
    /\ ppc' = "read"
    /\ orig' = <<>> /\ content' = <<>> /\ pos' = 0
    /\ replacementMap' = <<>>
    /\ downloads' = {}
    /\ copied' = {}
    /\ imgError' = FALSE /\ ioError' = FALSE /\ saved' = FALSE
    /\ UNCHANGED <<mode, nFiles, cur, tempExists, completed, exitCode, launcher,
                   inflight>>
    /\ UNCHANGED fmVars

CleanupOnSuccess(exists, ok) == IF ok THEN FALSE ELSE exists

\* try { await processFile(tempPath, null) } finally { fs.unlink(tempPath) }:
\* whether the file exists afterwards; `ok` is whether index.md was written.
\* unlink of the file this run has just written is taken to succeed.
CleanupTemp(exists, ok) == FALSE

\* --paste: processFile returned; the finally block unlinks the temporary file
PasteReturn ==
    /\ pc = "await" /\ ppc = "returned" /\ mode = "paste"
    /\ tempExists' = CleanupTemp(tempExists, saved)
    /\ pc' = "finish" /\ ppc' = "idle"
    /\ UNCHANGED <<mode, nFiles, cur, attempts, completed, exitCode, launcher>>
    /\ downloads' = downloads \ Pending
    /\ inflight' = Leak(inflight, cur, Cardinality(Pending))
    /\ UNCHANGED <<orig, content, pos, replacementMap, copied, imgError, ioError,
                   saved>>
    /\ UNCHANGED fmVars

\* --file: processFile returned
FileReturn ==
    /\ pc = "await" /\ ppc = "returned" /\ mode = "file"
    /\ pc' = "finish" /\ ppc' = "idle"
    /\ UNCHANGED <<mode, nFiles, cur, attempts, tempExists, completed, exitCode,
                   launcher>>
    /\ downloads' = downloads \ Pending
    /\ inflight' = Leak(inflight, cur, Cardinality(Pending))
    /\ UNCHANGED <<orig, content, pos, replacementMap, copied, imgError, ioError,
                   saved>>
    /\ UNCHANGED fmVars

LoopStopsOnFailure(c, n, ok) == c < n /\ ok

\* for (const file of mdFiles) { await processFile(...) }: whether another
\* iteration follows the one for file c, whose processing ended with `ok`
LoopContinues(c, n, ok) == c < n

\* --source: processFile returned, the loop goes on with the next file
SourceNext ==
    /\ pc = "await" /\ ppc = "returned" /\ mode = "source"
    /\ LoopContinues(cur, nFiles, saved)
    /\ cur' = cur + 1
    /\ pc' = "call" /\ ppc' = "idle"
    /\ UNCHANGED <<mode, nFiles, attempts, tempExists, completed, exitCode,
                   launcher>>
    /\ downloads' = downloads \ Pending
    /\ inflight' = Leak(inflight, cur, Cardinality(Pending))
    /\ UNCHANGED <<orig, content, pos, replacementMap, copied, imgError, ioError,
                   saved>>
    /\ UNCHANGED fmVars

\* --source: processFile returned for the last iteration of the loop
SourceLast ==
    /\ pc = "await" /\ ppc = "returned" /\ mode = "source"
    /\ ~LoopContinues(cur, nFiles, saved)
    /\ pc' = "finish" /\ ppc' = "idle"
    /\ UNCHANGED <<mode, nFiles, cur, attempts, tempExists, completed, exitCode,
                   launcher>>
    /\ downloads' = downloads \ Pending
    /\ inflight' = Leak(inflight, cur, Cardinality(Pending))
    /\ UNCHANGED <<orig, content, pos, replacementMap, copied, imgError, ioError,
                   saved>>
    /\ UNCHANGED fmVars

\* console.log('Import completed!'): main returns
Complete ==
    /\ pc = "finish"
    /\ completed' = TRUE
    /\ pc' = "done"
    /\ UNCHANGED <<mode, nFiles, cur, attempts, tempExists, exitCode, launcher>>
    /\ UNCHANGED procVars /\ UNCHANGED fmVars

\* main().catch(console.error): the event loop drains and node exits with 0
ProcessExit ==
    /\ pc = "done" /\ NoInflight
    /\ exitCode' = 0
    /\ pc' = "exited"
    /\ UNCHANGED <<mode, nFiles, cur, attempts, tempExists, completed, launcher>>
    /\ UNCHANGED procVars /\ UNCHANGED fmVars

\* import-from-clipboard.command: if [ $? -eq 0 ] ... else ... fi
LauncherReport ==
    /\ pc = "exited" /\ mode = "paste" /\ launcher = "none"
    /\ launcher' = IF exitCode = 0 THEN "success" ELSE "failure"
    /\ UNCHANGED <<mode, pc, nFiles, cur, attempts, tempExists, completed, exitCode>>
    /\ UNCHANGED procVars /\ UNCHANGED fmVars

\* ----------------------------------------------------------- processFile
mainOnly == <<mode, pc, nFiles, cur, attempts, tempExists, completed, exitCode,
              launcher, inflight>>

\* fs.readFile and ensureDir(postDir) succeeded; the scan loop starts
ReadOk ==
    /\ ppc = "read"
    /\ \E d \in Docs :
        /\ orig' = d
        /\ content' = d
    /\ pos' = 1
    /\ ppc' = "scan"
    /\ UNCHANGED <<replacementMap, downloads, copied, imgError, ioError, saved>>
    /\ UNCHANGED mainOnly /\ UNCHANGED fmVars

\* fs.readFile or ensureDir(postDir) threw: caught at the end of processFile
ReadFail ==
    /\ ppc = "read"
    /\ ioError' = TRUE
    /\ ppc' = "returned"
    /\ UNCHANGED <<orig, content, pos, replacementMap, downloads, copied,
                   imgError, saved>>
    /\ UNCHANGED mainOnly /\ UNCHANGED fmVars

AtOccurrence == ppc = "scan" /\ pos \in DOMAIN content

\* remote occurrence: replacementMap.set, downloadTasks.push(downloadFile(...))
ScanRemote ==
    /\ AtOccurrence
    /\ IsRemote(orig[pos].snip) /\ UrlParses(orig[pos].snip)
    /\ replacementMap' = MapSet(replacementMap, orig[pos].snip, ImgName(pos))
    /\ downloads' = downloads \cup {Task(pos, orig[pos].snip)}
    /\ pos' = pos + 1
    /\ UNCHANGED <<ppc, orig, content, copied, imgError, ioError, saved>>
    /\ UNCHANGED mainOnly /\ UNCHANGED fmVars

\* remote occurrence whose path new URL() rejects: the TypeError leaves the
\* scan loop and is caught by the catch at the end of processFile
ScanBadUrl ==
    /\ AtOccurrence
    /\ IsRemote(orig[pos].snip) /\ ~UrlParses(orig[pos].snip)
    /\ imgError' = TRUE
    /\ ppc' = "returned"
    /\ UNCHANGED <<orig, content, pos, replacementMap, downloads, copied,
                   ioError, saved>>
    /\ UNCHANGED mainOnly /\ UNCHANGED fmVars

\* local occurrence, sourceDir null: neither branch of the if is taken
ScanLocalSkip ==
    /\ AtOccurrence
    /\ ~IsRemote(orig[pos].snip) /\ ~HasSourceDir
    /\ pos' = pos + 1
    /\ UNCHANGED <<ppc, orig, content, replacementMap, downloads, copied,
                   imgError, ioError, saved>>
    /\ UNCHANGED mainOnly /\ UNCHANGED fmVars

\* local occurrence: decodeURIComponent throws, caught by the inner catch
ScanLocalDecodeFail ==
    /\ AtOccurrence
    /\ ~IsRemote(orig[pos].snip) /\ HasSourceDir /\ ~DecodeOk(orig[pos].snip)
    /\ imgError' = TRUE
    /\ pos' = pos + 1
    /\ UNCHANGED <<ppc, orig, content, replacementMap, downloads, copied,
                   ioError, saved>>
    /\ UNCHANGED mainOnly /\ UNCHANGED fmVars

\* local occurrence: await fs.copyFile(...) is issued
ScanLocalCopy ==
    /\ AtOccurrence
    /\ ~IsRemote(orig[pos].snip) /\ HasSourceDir /\ DecodeOk(orig[pos].snip)
    /\ ppc' = "copying"
    /\ UNCHANGED <<orig, content, pos, replacementMap, downloads, copied,
                   imgError, ioError, saved>>
    /\ UNCHANGED mainOnly /\ UNCHANGED fmVars

\* fs.copyFile resolved: replacementMap.set
CopyOk ==
    /\ ppc = "copying"
    /\ copied' = copied \cup {BaseName(orig[pos].snip)}
    /\ replacementMap' = MapSet(replacementMap, orig[pos].snip,
                                BaseName(orig[pos].snip))
    /\ pos' = pos + 1
    /\ ppc' = "scan"
    /\ UNCHANGED <<orig, content, downloads, imgError, ioError, saved>>
    /\ UNCHANGED mainOnly /\ UNCHANGED fmVars

\* fs.copyFile rejected: caught by the inner catch
CopyFail ==
    /\ ppc = "copying"
    /\ imgError' = TRUE
    /\ pos' = pos + 1
    /\ ppc' = "scan"
    /\ UNCHANGED <<orig, content, replacementMap, downloads, copied, ioError,
                   saved>>
    /\ UNCHANGED mainOnly /\ UNCHANGED fmVars

\* a download of the running document resolved: .then(() => ({success: true}))
DownloadOk ==
    /\ Suspended
    /\ \E t \in Pending :
        /\ downloads' = (downloads \ {t}) \cup {[t EXCEPT !.st = "ok"]}
    /\ UNCHANGED <<ppc, orig, content, pos, replacementMap, copied, imgError,
                   ioError, saved>>
    /\ UNCHANGED mainOnly /\ UNCHANGED fmVars

\* a download of the running document rejected: the .catch handler deletes the
\* snippet's entry from replacementMap
DownloadFail ==
    /\ Suspended
    /\ \E t \in Pending :
        /\ downloads' = (downloads \ {t}) \cup {[t EXCEPT !.st = "fail"]}
        /\ replacementMap' = MapDelete(replacementMap, t.snip)
    /\ imgError' = TRUE
    /\ UNCHANGED <<ppc, orig, content, pos, copied, ioError, saved>>
    /\ UNCHANGED mainOnly /\ UNCHANGED fmVars

\* a download left in flight by a processFile call that has returned settles:
\* its handlers touch only that call's own Map
StaleSettle ==
    /\ Suspended
    /\ \E f \in DOMAIN inflight :
        /\ inflight[f] > 0
        /\ inflight' = [inflight EXCEPT ![f] = @ - 1]
    /\ UNCHANGED <<mode, pc, nFiles, cur, attempts, tempExists, completed, exitCode,
                   launcher>>
    /\ UNCHANGED <<ppc, orig, content, pos, replacementMap, downloads, copied,
                   imgError, ioError, saved>>
    /\ UNCHANGED fmVars

\* the scan loop ended with downloadTasks.length = 0: the rewrite loop runs
\* at once, then writeFile is issued (the frontmatter step between the two
\* throws nothing and is the subject of SpecFM)
ScanEndNoTasks ==
    /\ ppc = "scan" /\ pos = Len(content) + 1
    /\ downloads = {}
    /\ content' = ApplyReplacements(content, replacementMap)
    /\ ppc' = "writing"
    /\ UNCHANGED <<orig, pos, replacementMap, downloads, copied, imgError,
                   ioError, saved>>
    /\ UNCHANGED mainOnly /\ UNCHANGED fmVars

\* the scan loop ended with downloads dispatched: await Promise.all
ScanEndWait ==
    /\ ppc = "scan" /\ pos = Len(content) + 1
    /\ downloads # {}
    /\ ppc' = "waitAll"
    /\ UNCHANGED <<orig, content, pos, replacementMap, downloads, copied,
                   imgError, ioError, saved>>
    /\ UNCHANGED mainOnly /\ UNCHANGED fmVars

\* Promise.all resolved: the rewrite loop runs, then writeFile is issued
Rewrite ==
    /\ ppc = "waitAll"
    /\ AllSettled
    /\ content' = ApplyReplacements(content, replacementMap)
    /\ ppc' = "writing"
    /\ UNCHANGED <<orig, pos, replacementMap, downloads, copied, imgError,
                   ioError, saved>>
    /\ UNCHANGED mainOnly /\ UNCHANGED fmVars

\* fs.writeFile(index.md) resolved
WriteOk ==
    /\ ppc = "writing"
    /\ saved' = TRUE
    /\ ppc' = "returned"
    /\ UNCHANGED <<orig, content, pos, replacementMap, downloads, copied,
                   imgError, ioError>>
    /\ UNCHANGED mainOnly /\ UNCHANGED fmVars

\* fs.writeFile(index.md) rejected: caught at the end of processFile
WriteFail ==
    /\ ppc = "writing"
    /\ ioError' = TRUE
    /\ ppc' = "returned"
    /\ UNCHANGED <<orig, content, pos, replacementMap, downloads, copied,
                   imgError, saved>>
    /\ UNCHANGED mainOnly /\ UNCHANGED fmVars

\* ------------------------------------------- strings (character sequences)
SummaryBudget == 20
MinParagraph == 10
TitleBudget == 50

\* bounds of SpecFM
MaxParas == 2       \* paragraph blocks per document
MaxRuns == 2        \* times the pipeline is run on the document and its output

\* '---'
Delim == <<"-", "-", "-">>

\* \s of a RegExp, and what String.prototype.trim removes
IsSpace(c) == c \in {" ", "\n", "\t"}

StartsWith(s, p) == Len(s) >= Len(p) /\ SubSeq(s, 1, Len(p)) = p

RECURSIVE TrimStart(_)
TrimStart(s) == IF s # <<>> /\ IsSpace(Head(s)) THEN TrimStart(Tail(s)) ELSE s

RECURSIVE TrimEnd(_)
TrimEnd(s) ==
    IF s # <<>> /\ IsSpace(s[Len(s)]) THEN TrimEnd(SubSeq(s, 1, Len(s) - 1)) ELSE s

\* String.prototype.trim
Trim(s) == TrimEnd(TrimStart(s))

\* s.slice(0, n) / s.substring(0, n)
Slice(s, n) == IF Len(s) > n THEN SubSeq(s, 1, n) ELSE s

\* least element of a set of indices, 0 for the empty set
First(S) == IF S = {} THEN 0 ELSE CHOOSE x \in S : \A y \in S : x <= y

\* s.replace(/"/g, '\\"')
RECURSIVE EscapeQuotesFrom(_, _)
EscapeQuotesFrom(s, i) ==
    LET q == First({x \in i..Len(s) : s[x] = "\""})
    IN IF q = 0 THEN SubSeq(s, i, Len(s))
       ELSE SubSeq(s, i, q - 1) \o <<"\\", "\"">> \o EscapeQuotesFrom(s, q + 1)

EscapeQuotes(s) == EscapeQuotesFrom(s, 1)

\* s.replace(/\n/g, ' ')
NewlinesToSpaces(s) == [i \in DOMAIN s |-> IF s[i] = "\n" THEN " " ELSE s[i]]

\* index of the last character of the run of whitespace starting at i (i - 1
\* when s[i] is no whitespace)
WsEnd(s, i) ==
    LET x == First({x \in i..Len(s) : ~IsSpace(s[x])})
    IN IF i > Len(s) THEN i - 1 ELSE IF x = 0 THEN Len(s) ELSE x - 1

\* index of the last character of the line that holds position i
LineEnd(s, i) ==
    LET x == First({x \in i..Len(s) : s[x] = "\n"})
    IN IF i > Len(s) THEN i - 1 ELSE IF x = 0 THEN Len(s) ELSE x - 1

\* /^#\s+(.*$)/m matches at i: a line starts at i with '#' and whitespace
HeadingAt(s, i) ==
    /\ i + 1 <= Len(s)
    /\ i = 1 \/ s[i - 1] = "\n"
    /\ s[i] = "#" /\ IsSpace(s[i + 1])

\* first match of /^#\s+(.*$)/m: [from, grp, to], from = 0 when there is none.
\* \s+ is greedy and also takes newlines; (.*$) is the rest of that line.
HeadingMatch(s) ==
    IF \E i \in DOMAIN s : HeadingAt(s, i)
    THEN LET i == CHOOSE i \in DOMAIN s :
                      HeadingAt(s, i) /\ \A j \in 1..(i - 1) : ~HeadingAt(s, j)
             w == WsEnd(s, i + 1)
         IN [from |-> i, grp |-> w + 1, to |-> LineEnd(s, w + 1)]
    ELSE [from |-> 0, grp |-> 0, to |-> 0]

\* content.split('\n')
RECURSIVE SplitLines(_)
SplitLines(s) ==
    LET e == LineEnd(s, 1)
    IN IF e = Len(s) THEN <<s>>
       ELSE <<SubSeq(s, 1, e)>> \o SplitLines(SubSeq(s, e + 2, Len(s)))

UntitledPost ==
    <<"U", "n", "t", "i", "t", "l", "e", "d", " ", "P", "o", "s", "t">>

extractTitleFromContent(c) ==
    LET m == HeadingMatch(c)
        lines == SelectSeq([i \in DOMAIN SplitLines(c) |-> Trim(SplitLines(c)[i])],
                           LAMBDA l : l # <<>> /\ Head(l) # "!")
    IN IF m.from # 0 THEN Trim(SubSeq(c, m.grp, m.to))
       ELSE IF lines # <<>> THEN Slice(lines[1], TitleBudget)
       ELSE UntitledPost

\* content.replace(/^#\s+(.*$)/m, '')
RemoveHeading(c) ==
    LET m == HeadingMatch(c)
    IN IF m.from = 0 THEN c
       ELSE SubSeq(c, 1, m.from - 1) \o SubSeq(c, m.to + 1, Len(c))

\* /!\[.*?\]\(.*?\)/ matches at i and ends at k, with "](" at j
ImageMatch(s, i, j, k) ==
    /\ i + 1 <= Len(s) /\ s[i] = "!" /\ s[i + 1] = "["
    /\ i + 1 < j /\ j < k /\ k <= Len(s)
    /\ s[j] = "]" /\ s[j + 1] = "(" /\ j + 1 < k /\ s[k] = ")"
    /\ \A x \in (i + 2)..(k - 1) : s[x] # "\n"

\* end of the match of /!\[.*?\]\(.*?\)/ at i (both .*? are lazy), 0 if none
ImageEnd(s, i) ==
    IF i + 1 <= Len(s) /\ s[i] = "!" /\ s[i + 1] = "["
       /\ \E j \in (i + 2)..Len(s) : \E k \in (j + 2)..Len(s) : ImageMatch(s, i, j, k)
    THEN LET j == First({j \in (i + 2)..Len(s) :
                            \E k \in (j + 2)..Len(s) : ImageMatch(s, i, j, k)})
         IN First({k \in (j + 2)..Len(s) : ImageMatch(s, i, j, k)})
    ELSE 0

\* text.replace(/!\[.*?\]\(.*?\)/g, '')
RECURSIVE RemoveImagesFrom(_, _)
RemoveImagesFrom(s, i) ==
    LET x == First({x \in i..Len(s) : ImageEnd(s, x) # 0})
    IN IF x = 0 THEN SubSeq(s, i, Len(s))
       ELSE SubSeq(s, i, x - 1) \o RemoveImagesFrom(s, ImageEnd(s, x) + 1)

RemoveImages(s) == RemoveImagesFrom(s, 1)

\* last newline of the whitespace run that starts at i, 0 if it holds none
LastNewline(s, i) ==
    LET w == WsEnd(s, i)
        nl == {j \in i..w : s[j] = "\n"}
    IN IF nl = {} THEN 0 ELSE CHOOSE j \in nl : \A x \in nl : x <= j

\* /\n\s*\n/ matches at i
SeparatorAt(s, i) == s[i] = "\n" /\ LastNewline(s, i + 1) # 0

\* text.split(/\n\s*\n/)
RECURSIVE SplitParagraphs(_)
SplitParagraphs(s) ==
    IF \E i \in DOMAIN s : SeparatorAt(s, i)
    THEN LET i == CHOOSE i \in DOMAIN s :
                      SeparatorAt(s, i) /\ \A j \in 1..(i - 1) : ~SeparatorAt(s, j)
         IN <<SubSeq(s, 1, i - 1)>>
                \o SplitParagraphs(SubSeq(s, LastNewline(s, i + 1) + 1, Len(s)))
    ELSE <<s>>

\* cleanP.length > 10 && !cleanP.startsWith('---')
Qualifies(cleanP) == Len(cleanP) > MinParagraph /\ ~StartsWith(cleanP, Delim)

\* end of the match of /<[^>]*>/ at i, 0 if none
TagEnd(s, i) ==
    IF s[i] = "<" THEN First({k \in (i + 1)..Len(s) : s[k] = ">"}) ELSE 0

\* text.replace(/<[^>]*>/g, '')
RECURSIVE RemoveTagsFrom(_, _)
RemoveTagsFrom(s, i) ==
    LET x == First({x \in i..Len(s) : TagEnd(s, x) # 0})
    IN IF x = 0 THEN SubSeq(s, i, Len(s))
       ELSE SubSeq(s, i, x - 1) \o RemoveTagsFrom(s, TagEnd(s, x) + 1)

\* start of the closing marker of /(\*\*|__)(.*?)\1/ matching at i, 0 if none
StrongClose(s, i) ==
    IF i + 1 <= Len(s) /\ s[i] \in {"*", "_"} /\ s[i + 1] = s[i]
    THEN First({j \in (i + 2)..(Len(s) - 1) :
                   /\ s[j] = s[i] /\ s[j + 1] = s[i]
                   /\ \A x \in (i + 2)..(j - 1) : s[x] # "\n"})
    ELSE 0

\* text.replace(/(\*\*|__)(.*?)\1/g, '$2')
RECURSIVE UnwrapStrongFrom(_, _)
UnwrapStrongFrom(s, i) ==
    LET x == First({x \in i..Len(s) : StrongClose(s, x) # 0})
        j == StrongClose(s, x)
    IN IF x = 0 THEN SubSeq(s, i, Len(s))
       ELSE SubSeq(s, i, x - 1) \o SubSeq(s, x + 2, j - 1) \o UnwrapStrongFrom(s, j + 2)

\* the closing marker of /(\*|_)(.*?)\1/ matching at i, 0 if none
EmClose(s, i) ==
    IF s[i] \in {"*", "_"}
    THEN First({j \in (i + 1)..Len(s) :
                   s[j] = s[i] /\ \A x \in (i + 1)..(j - 1) : s[x] # "\n"})
    ELSE 0

\* text.replace(/(\*|_)(.*?)\1/g, '$2')
RECURSIVE UnwrapEmFrom(_, _)
UnwrapEmFrom(s, i) ==
    LET x == First({x \in i..Len(s) : EmClose(s, x) # 0})
        j == EmClose(s, x)
    IN IF x = 0 THEN SubSeq(s, i, Len(s))
       ELSE SubSeq(s, i, x - 1) \o SubSeq(s, x + 1, j - 1) \o UnwrapEmFrom(s, j + 1)

\* end of the match of /^>\s+/m at i, 0 if none
QuoteEnd(s, i) ==
    IF /\ i + 1 <= Len(s)
       /\ i = 1 \/ s[i - 1] = "\n"
       /\ s[i] = ">" /\ IsSpace(s[i + 1])
    THEN WsEnd(s, i + 1) ELSE 0

\* text.replace(/^>\s+/gm, '')
RECURSIVE RemoveQuoteMarksFrom(_, _)
RemoveQuoteMarksFrom(s, i) ==
    LET x == First({x \in i..Len(s) : QuoteEnd(s, x) # 0})
    IN IF x = 0 THEN SubSeq(s, i, Len(s))
       ELSE SubSeq(s, i, x - 1) \o RemoveQuoteMarksFrom(s, QuoteEnd(s, x) + 1)

\* /\[([^\]]+)\]\([^\)]+\)/ matching at i: [mid, to], the place of "](" and of
\* the closing ")"; mid = 0 if there is no match
LinkMatch(s, i) ==
    LET j == IF s[i] = "[" THEN First({x \in (i + 1)..Len(s) : s[x] = "]"}) ELSE 0
        k == IF j > i + 1 /\ j + 1 <= Len(s) /\ s[j + 1] = "("
             THEN First({x \in (j + 2)..Len(s) : s[x] = ")"}) ELSE 0
    IN IF k > j + 2 THEN [mid |-> j, to |-> k] ELSE [mid |-> 0, to |-> 0]

\* text.replace(/\[([^\]]+)\]\([^\)]+\)/g, '$1')
RECURSIVE UnwrapLinksFrom(_, _)
UnwrapLinksFrom(s, i) ==
    LET x == First({x \in i..Len(s) : LinkMatch(s, x).mid # 0})
        m == LinkMatch(s, x)
    IN IF x = 0 THEN SubSeq(s, i, Len(s))
       ELSE SubSeq(s, i, x - 1) \o SubSeq(s, x + 1, m.mid - 1)
                \o UnwrapLinksFrom(s, m.to + 1)

\* steps 1 to 6 of extractSummaryFromContent
StripMarkup(c) ==
    UnwrapLinksFrom(RemoveQuoteMarksFrom(UnwrapEmFrom(UnwrapStrongFrom(
        RemoveTagsFrom(RemoveImages(RemoveHeading(c)), 1), 1), 1), 1), 1)

\* the loop over the paragraphs: the first one that qualifies, on one line
FirstParagraph(paragraphs) ==
    IF \E i \in DOMAIN paragraphs : Qualifies(Trim(paragraphs[i]))
    THEN NewlinesToSpaces(Trim(paragraphs[
             First({i \in DOMAIN paragraphs : Qualifies(Trim(paragraphs[i]))})]))
    ELSE <<>>

extractSummaryFromContent(c) == FirstParagraph(SplitParagraphs(StripMarkup(c)))

Ellipsis == <<".", ".", ".">>

TruncateAlways(summary, key) ==
    IF Len(summary) > SummaryBudget
    THEN SubSeq(summary, 1, SummaryBudget) \o Ellipsis ELSE summary

\* if (!AI_API_KEY && summary.length > 20) summary = summary.substring(0, 20) + "..."
Truncate(summary, key) ==
    IF ~key /\ Len(summary) > SummaryBudget
    THEN SubSeq(summary, 1, SummaryBudget) \o Ellipsis ELSE summary

\* the summary of createFrontmatter before escaping; reply is what
\* generateAiSummary resolved to (<<>> for null and for an empty string)
\* if (!summary) summary = title
OrTitle(summary, title) == IF summary = <<>> THEN title ELSE summary

Summarize(title, c, key, reply) ==
    Truncate(OrTitle(IF key /\ reply # <<>> THEN reply
                     ELSE IF c # <<>> THEN extractSummaryFromContent(c)
                     ELSE <<>>,
                     title),
             key)

\* new Date().toISOString().split('T')[0]
Today == <<"2", "0", "2", "6", "-", "1", "1", "-", "0", "2">>

\* the template literal createFrontmatter returns
FrontmatterText(title, summary) ==
    Delim \o <<"\n", "t", "i", "t", "l", "e", ":", " ", "\"">> \o EscapeQuotes(title)
    \o <<"\"", "\n", "d", "e", "s", "c", "r", "i", "p", "t", "i", "o", "n", ":", " ", "\"">>
    \o EscapeQuotes(summary)
    \o <<"\"", "\n", "p", "u", "b", "D", "a", "t", "e", ":", " ", "\"">> \o Today
    \o <<"\"", "\n", "c", "a", "t", "e", "g", "o", "r", "y", ":", " ", "\"",
         "I", "m", "p", "o", "r", "t", "e", "d", "\"", "\n">>
    \o <<"t", "a", "g", "s", ":", " ", "[", "\"", "Y", "o", "u", "m", "i", "n", "d",
         "\"", "]", "\n">>
    \o Delim \o <<"\n", "\n">>

NoGuard(c) == TRUE

\* if (!content.trim().startsWith('---'))
NeedsFrontmatter(c) == ~StartsWith(Trim(c), Delim)

\* ------------------------------------------------- documents of SpecFM
Blocks == {"H", "P5", "PF", "P12", "P25", "PM", "PMK", "IMG"}

BlockText(b) ==
    CASE b = "H" -> <<"#", " ", "T">>
      [] b = "P5" -> <<"s", "h", "o", "r", "t">>
      [] b = "PF" -> <<"-", "-", "-", "\n", "x", ":", " ", "y", "\n", "-", "-", "-">>
      [] b = "P12" -> <<"a", " ", "d", "o", "z", "e", "n", " ", "c", "h", "a", "r">>
      [] b = "P25" -> <<"h", "e", " ", "s", "a", "i", "d", " ", "\"", "h", "i", "\"",
                        " ", "a", "n", "d", " ", "w", "e", "n", "t", " ", "o", "f", "f">>
      [] b = "PM" -> <<"t", "w", "o", " ", "l", "i", "n", "e", "s", "\n",
                       "o", "f", " ", "a", " ", "t", "e", "x", "t">>
      [] b = "PMK" -> <<">", " ", "s", "e", "e", " ", "*", "*", "t", "h", "e", "*", "*",
                        " ", "[", "d", "o", "c", "s", "]", "(", "u", ")", " ",
                        "<", "b", ">", "_", "n", "o", "w", "_", "<", "/", "b", ">">>
      [] b = "IMG" -> <<"!", "[", "a", "]", "(", "b", ")">>

RECURSIVE JoinBlocks(_)
JoinBlocks(bs) ==
    IF bs = <<>> THEN <<>>
    ELSE IF Len(bs) = 1 THEN BlockText(bs[1])
    ELSE BlockText(bs[1]) \o <<"\n", "\n">> \o JoinBlocks(Tail(bs))

\* what generateAiSummary may resolve to: null / '' (both <<>>), a short
\* sentence, a sentence longer than the budget
AIReplies ==
    { <<>>,
      <<"a", "i", " ", "s", "a", "y", "s">>,
      <<"a", " ", "s", "u", "m", "m", "a", "r", "y", " ", "o", "f", " ", "\"", "i", "t",
        "\"", " ", "b", "y", " ", "a", "n", " ", "A", "I">> }

FMInit ==
    /\ paras \in UNION {[1..k -> Blocks] : k \in 1..MaxParas}
    /\ text = JoinBlocks(paras)
    /\ aiKey \in BOOLEAN
    /\ aiReply = <<>>
    /\ description = <<>>
    /\ synthCalls = 0
    /\ runs = 0

\* the frontmatter step of processFile with AI_API_KEY unset
RunNoKey ==
    /\ ~aiKey /\ runs < MaxRuns
    /\ runs' = runs + 1
    /\ IF NeedsFrontmatter(text)
       THEN \E title \in {extractTitleFromContent(text)} :
            \E summary \in {Summarize(title, text, FALSE, <<>>)} :
               /\ text' = FrontmatterText(title, summary) \o text
               /\ description' = EscapeQuotes(summary)
               /\ synthCalls' = synthCalls + 1
       ELSE UNCHANGED <<text, description, synthCalls>>
    /\ UNCHANGED <<paras, aiKey, aiReply>>
    /\ UNCHANGED mainVars

\* the frontmatter step of processFile with AI_API_KEY set
RunWithKey ==
    /\ aiKey /\ runs < MaxRuns
    /\ runs' = runs + 1
    /\ IF NeedsFrontmatter(text)
       THEN \E reply \in AIReplies :
            \E title \in {extractTitleFromContent(text)} :
            \E summary \in {Summarize(title, text, TRUE, reply)} :
               /\ text' = FrontmatterText(title, summary) \o text
               /\ description' = EscapeQuotes(summary)
               /\ aiReply' = reply
               /\ synthCalls' = synthCalls + 1
       ELSE UNCHANGED <<text, description, aiReply, synthCalls>>
    /\ UNCHANGED <<paras, aiKey>>
    /\ UNCHANGED mainVars

MainIdle ==
    /\ MainInit
    /\ mode = "none"

InitFM == MainIdle /\ FMInit

NextFM == RunNoKey \/ RunWithKey

SpecFM == InitFM /\ [][NextFM]_vars

\* ------------------------------------------------------- specification
FMIdle ==
    /\ text = <<>> /\ paras = <<>> /\ aiKey = FALSE /\ aiReply = <<>>
    /\ description = <<>> /\ synthCalls = 0 /\ runs = 0

Init == MainInit /\ FMIdle

Next ==
    \/ Usage \/ PasteEmpty \/ PasteWrite \/ SingleFile \/ ReaddirFail \/ Readdir
    \/ ProcBegin \/ PasteReturn \/ FileReturn \/ SourceNext \/ SourceLast
    \/ Complete \/ ProcessExit \/ LauncherReport
    \/ ReadOk \/ ReadFail
    \/ ScanRemote \/ ScanBadUrl \/ ScanLocalSkip \/ ScanLocalDecodeFail
    \/ ScanLocalCopy \/ CopyOk \/ CopyFail
    \/ DownloadOk \/ DownloadFail \/ StaleSettle
    \/ ScanEndNoTasks \/ ScanEndWait \/ Rewrite \/ WriteOk \/ WriteFail

Spec == Init /\ [][Next]_vars

\* ------------------------------------------------------------ properties
\* occurrences of the written document that were rewritten to ./<name>
Rewritten == {i \in DOMAIN content : content[i].name # NoName}

RemoteOccs == {i \in DOMAIN orig : IsRemote(orig[i].snip)}

Succeeded == {t \in downloads : t.st = "ok"}

Failed == {t \in downloads : t.st = "fail"}

Outstanding == {t \in downloads : t.st = "pending"}

\* C1: in a written document with N remote references of which M downloads
\* succeeded, exactly M remote occurrences are rewritten and the other N-M are
\* identical to the original text.
C1_ExactlyMRewritten ==
    (ppc = "returned" /\ saved) =>
        /\ Cardinality(Rewritten \cap RemoteOccs) = Cardinality(Succeeded)
        /\ \A i \in RemoteOccs \ Rewritten : content[i] = orig[i]

\* C2: no rewrite has been applied, and the write of index.md has neither been
\* issued nor completed, while a download of the same document is outstanding.
C2_NoRewriteBeforeAllSettled ==
    (content # orig \/ ppc = "writing" \/ saved) => Outstanding = {}

C2_Witness ==
    /\ saved /\ content # orig
    /\ Succeeded # {} /\ Failed # {}

\* C3: a per-image error (and no per-file error) leaves the document non-fatal:
\* processFile returns with index.md written and every occurrence scanned.
C3_ImageErrorNonFatal ==
    (ppc = "returned" /\ imgError /\ ~ioError) =>
        /\ saved
        /\ pos = Len(orig) + 1

\* C4: while processFile runs for one document, no download dispatched for
\* another document is still in flight.
C4_NoCrossDocumentOverlap ==
    ppc \notin {"idle", "returned"} =>
        \A f \in DOMAIN inflight : f # cur => inflight[f] = 0

\* C5: in --paste mode the temporary clipboard file does not exist once
\* processing of it is over, whether index.md was written or not.
C5_TempFileRemoved ==
    (mode = "paste" /\ pc \in {"finish", "done", "exited"}) => ~tempExists

C5_Witness ==
    /\ mode = "paste" /\ pc = "exited"
    /\ attempts[1] = 1 /\ ~saved /\ ~tempExists

\* C6: in --source mode no file is attempted twice, every listed file has been
\* attempted once when the loop is over, whatever failed, and the completion
\* line is printed when main returns.
C6_EveryFileAttemptedOnce ==
    mode = "source" =>
        /\ \A f \in 1..MaxFiles : attempts[f] <= 1
        /\ (pc \in {"finish", "done"} \/ (pc = "exited" /\ exitCode = 0)) =>
               \A f \in 1..nFiles : attempts[f] = 1
        /\ (pc = "done" \/ (pc = "exited" /\ exitCode = 0)) => completed

\* file 1 failed on a malformed URL (its download is still in flight), file 2
\* was processed and written, and the completion line is out
C6_Witness ==
    /\ mode = "source" /\ completed /\ nFiles >= 2
    /\ cur = nFiles /\ saved
    /\ inflight[1] > 0

\* C9: the launcher reports success exactly when node exits with 0, and a
\* --paste run exits with 0 only if index.md was written.
C9_ExitStatusReflectsOutcome ==
    /\ launcher # "none" => (launcher = "success" <=> exitCode = 0)
    /\ (mode = "paste" /\ pc = "exited" /\ exitCode = 0) => saved

\* C10: every rewritten reference ./<name> of the document processFile is
\* working on or has just written names a file whose download or copy into the
\* post directory completed successfully.
C10_RewrittenNamesExist ==
    ppc # "idle" => \A i \in Rewritten :
        IF IsRemote(content[i].snip)
        THEN \E t \in Succeeded : ImgName(t.pos) = content[i].name
        ELSE content[i].name \in copied

\* The same for the references whose file name holds no replacement pattern:
\* this holds in every interleaving of the settlements with the scan loop.
RewrittenPlainNamesExist ==
    ppc # "idle" => \A i \in Rewritten :
        \/ content[i].snip = "ldol"
        \/ IF IsRemote(content[i].snip)
           THEN \E t \in Succeeded : ImgName(t.pos) = content[i].name
           ELSE content[i].name \in copied

\* --------------------------------------------------- properties of SpecFM
\* the document as it was before the pipeline first ran on it
Original == JoinBlocks(paras)

\* C7: a document that already begins with '---' is never given to the
\* synthesizer and is left as it is; whatever the document, running the
\* pipeline again on its own output synthesizes nothing more, so there is
\* never a second metadata block.
C7_FrontmatterIdempotent ==
    /\ StartsWith(Original, Delim) => (synthCalls = 0 /\ text = Original)
    /\ synthCalls = 0 => text = Original
    /\ synthCalls <= 1
    /\ runs >= 1 => StartsWith(text, Delim)

C7_Witness ==
    /\ runs >= 2 /\ synthCalls = 1
    /\ text # Original /\ StartsWith(text, Delim)

\* what the extractor is to return for a block standing alone as a paragraph:
\* the paragraph as plain text on one line when that is longer than the
\* threshold and is no metadata delimiter, nothing otherwise
BlockSummary(b) ==
    CASE b = "P12" -> BlockText("P12")
      [] b = "P25" -> BlockText("P25")
      [] b = "PM" -> <<"t", "w", "o", " ", "l", "i", "n", "e", "s", " ",
                       "o", "f", " ", "a", " ", "t", "e", "x", "t">>
      [] b = "PMK" -> <<"s", "e", "e", " ", "t", "h", "e", " ", "d", "o", "c", "s", " ",
                        "n", "o", "w">>
      [] OTHER -> <<>>

\* the first qualifying paragraph of the document, <<>> when it has none
FirstQualifying ==
    LET q == SelectSeq(paras, LAMBDA b : BlockSummary(b) # <<>>)
    IN IF q = <<>> THEN <<>> ELSE BlockSummary(q[1])

Cut(d) ==
    IF Len(d) > SummaryBudget THEN SubSeq(d, 1, SummaryBudget) \o Ellipsis ELSE d

LocalOrTitle ==
    IF FirstQualifying # <<>> THEN FirstQualifying
    ELSE extractTitleFromContent(Original)

====
